---- MODULE Spec2Model ----
(***************************************************************************)
(* A model of the Zoho Projects bot: the credentialed API client           *)
(* (src/src/zoho_client.py), the tool registry (src/src/tools.py) and the  *)
(* agent loop with its conversation memory (src/src/agent.py).             *)
(*                                                                         *)
(* Optional values of the Python code are sequences: <<>> is None and      *)
(* <<v>> is the value v.  Times are seconds on the client's clock.         *)
(***************************************************************************)
EXTENDS Integers, Sequences, FiniteSets, TLC

\* ------------------------------------------------------------------ bounds

\* The clock stops advancing at MaxTime seconds.
MaxTime == 1200
\* The authorization server issues at most MaxIssued access tokens; after
\* that its exchanges fail without issuing one.
MaxIssued == 3

\* A session of the agent with every outcome of a round has at most MaxChats
\* chat calls.
MaxChats == 1
\* A long session, whose rounds end without tool calls, has at most
\* MaxSessionChats chat calls.
MaxSessionChats == 12
\* The model asks for at most MaxToolCalls tool calls in one round.
MaxToolCalls == 2

\* A collection the API holds (projects, tasks, time logs) has at most
\* MaxItems items.
MaxItems == 2
MaxRequests == 3

\* The steps by which the clock advances between operations.
TickSteps == {300}

\* --------------------------------------------------------- program constants

\* zoho_client.py:56  timedelta(seconds=expires_in - 300)
SafetyMargin == 300
\* zoho_client.py:55  token_data.get("expires_in", 3600)
DefaultExpiresIn == 3600

\* agent.py:39  ConversationBufferWindowMemory(k=10)
K == 10
\* config.py:35  max_iterations: int = Field(default=10, env="MAX_ITERATIONS")
DefaultMaxIterations == 10

\* cliq_integration.py:131  max_length = 4000
MaxLength == 4000

\* The values of MAX_ITERATIONS the bot is started with.
Ceilings == {0, 2, DefaultMaxIterations}

\* The expires_in values the authorization endpoint answers with, in seconds.
ExpiresInValues == {120, 300, 900}

VARIABLES
    now,                \* datetime.now(), seconds
    access_token,       \* ZohoProjectsClient._access_token: <<>> or <<token>>
    token_expires_at,   \* ZohoProjectsClient._token_expires_at: <<>> or <<time>>
    issued,             \* tokens issued so far by the authorization server;
                        \* the k-th token issued is the token k
    real_expiry,        \* the time at which the server stops accepting the
                        \* token held in access_token (issue time + its
                        \* lifetime): <<>> or <<time>>
    expiry_from,        \* the token whose exchange set token_expires_at:
                        \* <<>> or <<token>>
    lastOp,             \* what the client operation that has just ended did
    max_iterations,     \* settings.max_iterations, read at startup
    messages,           \* agent.memory.chat_memory.messages
    pc,                 \* where the chat call in progress stands: "idle"
                        \* (none in progress), "loop" (at the head of the
                        \* executor's loop), "tools" (executing the tool
                        \* calls of a round)
    chats,              \* chat calls started so far; the k-th call's
                        \* utterance is the utterance k
    input,              \* the utterance of the call in progress
    chat_history,       \* the prior turns given to the model in this call
    iterations,         \* the executor's count of completed rounds
    pending,            \* tool calls of the round still to execute
    lastCall,           \* the tool invocation that has just ended
    returned,           \* what the last chat call gave its caller
    lastRun,            \* the operation run on its own that has just
                        \* ended: its name, its input and what it gave
    thread,             \* for each thread that calls the client: where its
                        \* call of _make_request stands, and its locals
    context,            \* tools._context.user_id on the thread that serves
                        \* the web requests: <<>> (not set) or <<id>>
    request             \* the web request that began the last chat call:
                        \* its endpoint and the user id its payload gave

clientVars == <<now, access_token, token_expires_at, issued, real_expiry,
                expiry_from, lastOp>>

agentVars == <<max_iterations, messages, pc, chats, input, chat_history,
               iterations, pending, lastCall, returned>>

toolVars == <<lastRun>>

threadVars == <<thread>>

webVars == <<context, request>>

vars == <<now, access_token, token_expires_at, issued, real_expiry,
          expiry_from, lastOp, max_iterations, messages, pc, chats, input,
          chat_history, iterations, pending, lastCall, returned, lastRun,
          thread, context, request>>

\* ------------------------------------------------------- the client's state

\* The credential fields of the client, with the ghost fields that say which
\* exchange each field came from.
Cred == [access_token |-> access_token, token_expires_at |-> token_expires_at,
         issued |-> issued, real_expiry |-> real_expiry,
         expiry_from |-> expiry_from]

\* ZohoProjectsClient.__init__: no token, no expiry.
InitCred == [access_token |-> <<>>, token_expires_at |-> <<>>, issued |-> 0,
             real_expiry |-> <<>>, expiry_from |-> <<>>]

\* ----------------------------------------------- the authorization endpoint

\* The answers of POST /oauth/v2/token.  expires_in is <<>> when the body has
\* no such field; lifetime is the time the server accepts the token for.
RefreshFailures == {"network_error", "http_error", "not_json"}

RefreshResponses ==
    [kind : RefreshFailures \cup {"no_access_token"},
     expires_in : {<<>>}, lifetime : {0}]
    \cup [kind : {"ok"}, expires_in : {<<e>> : e \in ExpiresInValues},
          lifetime : {0}]
    \cup [kind : {"ok"}, expires_in : {<<>>}, lifetime : {DefaultExpiresIn}]
    \cup [kind : {"bad_expires_in"}, expires_in : {<<>>},
          lifetime : ExpiresInValues]

\* The lifetime the server gives the token of a response.
Lifetime(r) == IF r.expires_in # <<>> THEN r.expires_in[1] ELSE r.lifetime

\* Whether the response carries an access token (the server issued one).
Issues(r) == r.kind \in {"ok", "bad_expires_in"}

\* The responses the server can give in credential state c.
ResponsesIn(c) == {r \in RefreshResponses : Issues(r) => c.issued < MaxIssued}

\* No exchange: the value of the response where none is read.
NoResponse == [kind |-> "none", expires_in |-> <<>>, lifetime |-> 0]

\* ---------------------------------------------------- _refresh_access_token

\* ExpiresAt without the five minutes' buffer.
ExpiresAtNoBuffer(t, e) == t + e

\* The recorded expiry of a token refreshed at time t with expires_in e.
ExpiresAt(t, e) == t + (e - SafetyMargin)

\* _refresh_access_token at time t on the response r: the new credential
\* state, the exception that leaves the method ("none": it returns) and the
\* token it returns.
\*   - a RequestException (requests.post, raise_for_status, and, as
\*     requests.exceptions.JSONDecodeError, response.json()) is caught and
\*     re-raised as ZohoAuthError, nothing assigned;
\*   - token_data["access_token"] of a body without the key raises KeyError
\*     before anything is assigned;
\*   - expires_in - 300 of a non-numeric expires_in raises TypeError after
\*     _access_token was assigned and before _token_expires_at is.
RefreshAccessToken(c, t, r) ==
    LET tok == c.issued + 1 IN
    CASE r.kind \in RefreshFailures ->
            [cred |-> c, exc |-> "ZohoAuthError", ret |-> <<>>]
      [] r.kind = "no_access_token" ->
            [cred |-> c, exc |-> "KeyError", ret |-> <<>>]
      [] r.kind = "bad_expires_in" ->
            [cred |-> [c EXCEPT !.access_token = <<tok>>,
                                !.issued = tok,
                                !.real_expiry = <<t + Lifetime(r)>>],
             exc |-> "TypeError", ret |-> <<>>]
      [] OTHER ->
            LET e == IF r.expires_in # <<>> THEN r.expires_in[1]
                     ELSE DefaultExpiresIn
            IN [cred |-> [c EXCEPT !.access_token = <<tok>>,
                                   !.issued = tok,
                                   !.real_expiry = <<t + Lifetime(r)>>,
                                   !.token_expires_at = <<ExpiresAt(t, e)>>,
                                   !.expiry_from = <<tok>>],
                exc |-> "none", ret |-> <<tok>>]

\* -------------------------------------------------------- _get_access_token

\* TokenValid with the comparison off by one: a token is still taken as valid
\* at the very time of its recorded expiry.
TokenValidInclusive(c, t) ==
    /\ c.access_token # <<>>
    /\ c.token_expires_at # <<>>
    /\ t <= c.token_expires_at[1]

\* The condition under which _get_access_token returns the cached token.
TokenValid(c, t) ==
    /\ c.access_token # <<>>
    /\ c.token_expires_at # <<>>
    /\ t < c.token_expires_at[1]

\* _get_access_token at time t; r is the answer of the authorization
\* endpoint, read only if the method refreshes.  refreshes counts the
\* exchanges with the endpoint.
GetAccessToken(c, t, r) ==
    IF ~TokenValid(c, t)
    THEN RefreshAccessToken(c, t, r) @@ [refreshes |-> 1]
    ELSE [cred |-> c, exc |-> "none", ret |-> c.access_token, refreshes |-> 0]

\* ------------------------------------------------------------ _make_request

\* The answers of the downstream API to one request.
ApiFailures == {"network_error", "http_error", "not_json"}
ApiResponses == ApiFailures \cup {"empty", "json"}

\* An exception object: its class, the attributes it has besides the
\* message, and the message: a fixed prefix and the text of its cause.
Exception(type, fields, prefix, cause) ==
    [type |-> type, fields |-> fields, prefix |-> prefix, cause |-> cause]
NoError == Exception("none", {}, "", "none")

\* ZohoAPIError(f"API request failed: {e}") for the answer a of the API:
\* class ZohoAPIError(Exception) adds nothing to Exception, so the object
\* has its message and no other attribute.
ApiError(a) == Exception("ZohoAPIError", {"message"}, "API request failed: ", a)

\* MakeRequest without the except clause of lines 104-108: the
\* RequestException of a failed request leaves the method as it is.
MakeRequestUnwrapped(c, t, r, a) ==
    LET g == GetAccessToken(c, t, r) IN
    IF g.exc # "none"
    THEN [cred |-> g.cred, exc |-> g.exc, sent |-> FALSE, token |-> <<>>,
          refreshes |-> g.refreshes, attempts |-> 0, body |-> "none",
          error |-> NoError]
    ELSE [cred |-> g.cred,
          exc |-> IF a \in ApiFailures THEN "RequestException" ELSE "none",
          sent |-> TRUE, token |-> g.ret, refreshes |-> g.refreshes,
          attempts |-> 1,
          body |-> IF a \in ApiFailures THEN "none" ELSE a,
          error |-> IF a \in ApiFailures
                    THEN Exception("RequestException", {"message"}, "", a)
                    ELSE NoError]

\* MakeRequest with an except clause that drops the cached token when the
\* request fails.
MakeRequestDropsToken(c, t, r, a) ==
    LET g == GetAccessToken(c, t, r) IN
    IF g.exc # "none"
    THEN [cred |-> g.cred, exc |-> g.exc, sent |-> FALSE, token |-> <<>>,
          refreshes |-> g.refreshes, attempts |-> 0, body |-> "none",
          error |-> NoError]
    ELSE [cred |-> IF a \in ApiFailures THEN [InitCred EXCEPT !.issued = g.cred.issued]
                   ELSE g.cred,
          exc |-> IF a \in ApiFailures THEN "ZohoAPIError" ELSE "none",
          sent |-> TRUE, token |-> g.ret, refreshes |-> g.refreshes,
          attempts |-> 1,
          body |-> IF a \in ApiFailures THEN "none" ELSE a,
          error |-> IF a \in ApiFailures THEN ApiError(a) ELSE NoError]

\* _make_request at time t: the token is fetched outside the try block, so
\* an exception of _get_access_token leaves the method as it is; a
\* RequestException of the request itself becomes ZohoAPIError.  sent says
\* whether the request went out, token the credential attached to it.
MakeRequest(c, t, r, a) ==
    LET g == GetAccessToken(c, t, r) IN
    IF g.exc # "none"
    THEN [cred |-> g.cred, exc |-> g.exc, sent |-> FALSE, token |-> <<>>,
          refreshes |-> g.refreshes, attempts |-> 0, body |-> "none",
          error |-> NoError]
    ELSE [cred |-> g.cred,
          exc |-> IF a \in ApiFailures THEN "ZohoAPIError" ELSE "none",
          sent |-> TRUE, token |-> g.ret, refreshes |-> g.refreshes,
          attempts |-> 1,
          body |-> IF a \in ApiFailures THEN "none" ELSE a,
          error |-> IF a \in ApiFailures THEN ApiError(a) ELSE NoError]

\* ---------------------------------------------------------- the settings

\* The fields of Settings declared without a default.
RequiredFields ==
    {"openai_api_key", "zoho_client_id", "zoho_client_secret",
     "zoho_refresh_token", "zoho_portal_id"}

\* The required fields the environment and the .env file give no value
\* for, were the portal id optional.
MissingButPortalId(env) ==
    {f \in RequiredFields \ {"zoho_portal_id"} : env[f] = "absent"}

\* The required fields the environment and the .env file give no value
\* for. A variable set to the empty string is a value.
Missing(env) == {f \in RequiredFields : env[f] = "absent"}

\* settings = Settings(), run when config is imported: the values, or a
\* ValidationError that names the missing fields.
LoadSettings(env) ==
    IF Missing(env) # {}
    THEN [raised |-> "ValidationError", settings |-> <<>>]
    ELSE [raised |-> "none", settings |-> <<env>>]

\* ZohoProjectsClient.__init__: the credentials' fields come from the
\* settings, and there is no token yet.
ClientInit(settings) ==
    [client_id |-> settings["zoho_client_id"],
     client_secret |-> settings["zoho_client_secret"],
     refresh_token |-> settings["zoho_refresh_token"],
     portal_id |-> settings["zoho_portal_id"],
     cred |-> InitCred]

\* ZohoProjectsAgent.__init__: its client, and the model with the key.
AgentInit(settings) ==
    [zoho_client |-> ClientInit(settings),
     api_key |-> settings["openai_api_key"]]

\* A start of the program in the environment env: the modules are
\* imported, config first, and then create_agent is called.
Startup(env) ==
    LET loaded == LoadSettings(env) IN
    IF loaded.raised # "none"
    THEN [raised |-> loaded.raised, agent |-> <<>>]
    ELSE [raised |-> "none", agent |-> <<AgentInit(loaded.settings[1])>>]

\* ------------------------------------------------- the response envelope

\* A decoded JSON object is a function from its keys to their values; {}
\* is the function without keys.
EmptyObject == <<>>

\* What _make_request returns on success for a response with the bytes
\* content: {} when there are none, else response.json(), the object the
\* bytes spell.
DecodedBody(content) ==
    IF content.empty THEN EmptyObject ELSE content.object

\* Unwrap that takes the default whatever the object holds.
UnwrapAlwaysDefault(object, key, default) == default

\* response.get(key, default) of a resource method.
Unwrap(object, key, default) ==
    IF key \in DOMAIN object THEN object[key] ELSE default

\* get_all_projects on a successful response: the list under "projects".
GetAllProjectsOf(content) == Unwrap(DecodedBody(content), "projects", <<>>)

\* ------------------------------------------------------------ the tools

\* create_zoho_tools: the names of the registered tools.
ToolNames == {"list_all_projects", "search_projects", "get_project_details",
              "create_project", "search_tasks", "get_task_details",
              "create_task", "update_task", "get_tasklists",
              "create_tasklist", "get_time_logs", "get_all_time_logs",
              "add_time_log"}

\* The methods ZohoProjectsClient defines.
ClientMethods == {"get_all_projects", "get_project_details", "create_project",
                  "update_project", "get_all_tasks", "get_task_details",
                  "create_task", "update_task", "delete_task",
                  "get_all_tasklists", "create_tasklist", "update_tasklist",
                  "delete_tasklist", "get_time_logs", "get_task_time_logs",
                  "add_time_log", "update_time_log", "delete_time_log",
                  "search_projects", "search_tasks"}

\* The client method each tool's _run calls.
ClientMethod(tool) ==
    CASE tool = "list_all_projects" -> "get_all_projects"
      [] tool = "search_projects" -> "search_projects"
      [] tool = "get_project_details" -> "get_project_details"
      [] tool = "create_project" -> "create_project"
      [] tool = "search_tasks" -> "search_tasks"
      [] tool = "get_task_details" -> "get_task_details"
      [] tool = "create_task" -> "create_task"
      [] tool = "update_task" -> "update_task"
      [] tool = "get_tasklists" -> "get_all_tasklists"
      [] tool = "create_tasklist" -> "create_tasklist"
      [] tool = "get_time_logs" -> "get_task_time_logs"
      [] tool = "get_all_time_logs" -> "get_my_time_logs"
      [] tool = "add_time_log" -> "add_time_log"

\* The text each tool's except ZohoAPIError clause puts before the cause
\* (the mark the creating and updating tools put first is left out).
ErrorPrefix(tool) ==
    CASE tool = "list_all_projects" -> "Error listing projects"
      [] tool = "search_projects" -> "Error searching projects"
      [] tool = "get_project_details" -> "Error getting project details"
      [] tool = "create_project" -> "Error creating project"
      [] tool = "search_tasks" -> "Error searching tasks"
      [] tool = "get_task_details" -> "Error getting task details"
      [] tool = "create_task" -> "Error creating task"
      [] tool = "update_task" -> "Error updating task"
      [] tool = "get_tasklists" -> "Error getting task lists"
      [] tool = "create_tasklist" -> "Error creating task list"
      [] tool = "get_time_logs" -> "Error getting time logs"
      [] tool = "get_all_time_logs" -> "Error getting all time logs"
      [] tool = "add_time_log" -> "Error adding time log"

\* The arguments the model gives a tool: "valid" ones, "invalid" ones (the
\* tool's args_schema rejects them) and, for update_task, valid ones that
\* name no field to update ("no_fields").
ArgClasses(tool) ==
    {"valid", "invalid"} \cup
    (IF tool = "update_task" THEN {"no_fields"} ELSE {})

\* The text a tool invocation gives back to the loop.
ToolText(kind, tool, prefix) == [kind |-> kind, tool |-> tool, prefix |-> prefix]
NoToolText == ToolText("none", "none", "")

\* ToolCatches of a tool whose except clause names ZohoAuthError too.
ToolCatchesAuthError(exc) == exc \in {"ZohoAPIError", "ZohoAuthError"}

\* The exceptions a tool's except clause turns into its textual result.
ToolCatches(exc) == exc = "ZohoAPIError"

\* A tool's _run after its client call ended as m (a MakeRequest result):
\* an exception the except clause does not name leaves _run.
RunAfterCall(tool, m) ==
    IF m.exc = "none"
    THEN [raised |-> "none",
          text |-> ToolText(IF m.body = "json" THEN "result" ELSE "nothing",
                            tool, "")]
    ELSE IF ToolCatches(m.exc)
    THEN [raised |-> "none", text |-> ToolText("error", tool, ErrorPrefix(tool))]
    ELSE [raised |-> m.exc, text |-> NoToolText]

\* The client operation of a tool that makes none.
NoRequest(c) == [cred |-> c, exc |-> "none", sent |-> FALSE, token |-> <<>>,
                 refreshes |-> 0, attempts |-> 0, body |-> "none",
                 error |-> NoError]

\* tool.run(arguments) at time t: the validation against args_schema, then
\* _run with its one call of a client method.  called says whether a client
\* method ran, m what its request did.
ToolRun(tool, args, c, t, r, a) ==
    IF args = "invalid"
    THEN [raised |-> "ValidationError", text |-> NoToolText, called |-> FALSE,
          m |-> NoRequest(c)]
    ELSE IF tool = "update_task" /\ args = "no_fields"
    THEN [raised |-> "none", text |-> ToolText("no_update_data", tool, ""),
          called |-> FALSE, m |-> NoRequest(c)]
    ELSE IF ClientMethod(tool) \notin ClientMethods
    THEN [raised |-> "AttributeError", text |-> NoToolText, called |-> FALSE,
          m |-> NoRequest(c)]
    ELSE LET m == MakeRequest(c, t, r, a) IN
         RunAfterCall(tool, m) @@ [called |-> TRUE, m |-> m]

\* ------------------------------------------------- the caller's identity

\* set_user_context(user_id, user_name): the thread's context holds the id
\* (the name, which no tool reads, is left out).
SetUserContext(ctx, user_id) == <<user_id>>

\* get_user_context()['user_id']: the id the thread's context holds, or
\* None (<<>>) if none was set on this thread.
GetUserContext(ctx) == ctx

\* The users_list filter get_all_time_logs builds from the id it read.
UsersList(user_id) == IF user_id # <<>> THEN user_id[1] ELSE "all"

\* What get_all_time_logs reads and builds before its client call, in the
\* context ctx: for every other tool, nothing.
ToolContext(tool, args, ctx) ==
    IF tool = "get_all_time_logs" /\ args = "valid"
    THEN [read |-> GetUserContext(ctx),
          users_list |-> UsersList(GetUserContext(ctx))]
    ELSE [read |-> <<>>, users_list |-> "none"]

\* ------------------------------------------------- the tools' arguments

\* A value of the JSON arguments the model gives a tool: its JSON type t
\* ("absent": the key is not given), and, for a number or a string that
\* spells one, the number v; exact says that v is an integer and all of
\* the value.  For any other string v is its length.
Value(t, v, exact) == [t |-> t, v |-> v, exact |-> exact]
Absent == Value("absent", 0, FALSE)
Null == Value("null", 0, FALSE)
\* The integer n, the string that spells n, the float n.0 and n.5.
IntValue(n) == Value("int", n, TRUE)
StrOfInt(n) == Value("str", n, TRUE)
FloatWhole(n) == Value("float", n, TRUE)
FloatHalf(n) == Value("float", n, FALSE)
\* The empty string and a string of a few letters.
EmptyStr == Value("str", 0, FALSE)
Word == Value("str", 4, FALSE)

\* The validation of a field: ok, and the validated value, <<>> for None.
Invalid == [ok |-> FALSE, val |-> <<>>]
Valid(val) == [ok |-> TRUE, val |-> val]

\* A field declared str = Field(...): required, a string and nothing else.
ValidateStr(x) == IF x.t = "str" THEN Valid(<<x>>) ELSE Invalid

\* A field declared Optional[str] = Field(default=None).
ValidateOptionalStr(x) ==
    IF x.t \in {"absent", "null"} THEN Valid(<<>>) ELSE ValidateStr(x)

\* A field declared Optional[int] = Field(default=None): pydantic takes an
\* integer, and converts a float without fraction and a string that spells
\* an integer; the field has no bounds.
ValidateOptionalInt(x) ==
    IF x.t \in {"absent", "null"} THEN Valid(<<>>)
    ELSE IF x.t \in {"int", "float", "str"} /\ x.exact THEN Valid(<<x.v>>)
    ELSE Invalid

\* Python's truth of a validated string: None and "" are false.
Truthy(val) == val # <<>> /\ val[1].v > 0

\* The arguments of update_task validated against UpdateTaskInput.
UpdateTaskInput(raw) ==
    LET f == [project_id |-> ValidateStr(raw.project_id),
              task_id |-> ValidateStr(raw.task_id),
              name |-> ValidateOptionalStr(raw.name),
              description |-> ValidateOptionalStr(raw.description),
              percent_complete |-> ValidateOptionalInt(raw.percent_complete),
              priority |-> ValidateOptionalStr(raw.priority)]
    IN [ok |-> \A k \in DOMAIN f : f[k].ok,
        args |-> [k \in DOMAIN f |-> f[k].val]]

\* UpdateTaskData that leaves out a percent_complete that is false.
UpdateTaskDataTruthy(args) ==
    [fields |-> {k \in {"name", "description", "priority"} : Truthy(args[k])}
                \cup (IF args.percent_complete \notin {<<>>, <<0>>}
                      THEN {"percent_complete"} ELSE {}),
     percent_complete |-> IF args.percent_complete = <<0>> THEN <<>>
                          ELSE args.percent_complete]

\* task_data of UpdateTaskTool._run: the fields it puts into the request
\* body, and the percent_complete among them.
UpdateTaskData(args) ==
    [fields |-> {k \in {"name", "description", "priority"} : Truthy(args[k])}
                \cup (IF args.percent_complete # <<>>
                      THEN {"percent_complete"} ELSE {}),
     percent_complete |-> args.percent_complete]

\* The completion the server has for the task before an update.
StoredPercent == 20

\* What one run of an operation gave: the exception tool.run raised, the
\* kind of text returned, whether the client was called, the body sent, and
\* the completion the text shows.
NoBody == [fields |-> {}, percent_complete |-> <<>>]
Run(op, given, raised, text, called, body, completion) ==
    [op |-> op, input |-> given, raised |-> raised, text |-> text,
     called |-> called, body |-> body, completion |-> completion]
NoRun == [op |-> "none"]

\* update_task run with the JSON arguments raw; a is the API's answer to
\* the request: "json" is the updated task, as the server keeps it.
UpdateTaskRun(raw, a) ==
    LET v == UpdateTaskInput(raw)
        body == UpdateTaskData(v.args)
    IN IF ~v.ok
       THEN Run("update_task", raw, "ValidationError", "none", FALSE, NoBody, <<>>)
       ELSE IF body.fields = {}
       THEN Run("update_task", raw, "none", "no_update_data", FALSE, NoBody, <<>>)
       ELSE IF a \in ApiFailures
       THEN Run("update_task", raw, "none", "error", TRUE, body, <<>>)
       ELSE IF a = "empty"
       THEN Run("update_task", raw, "none", "no_data_returned", TRUE, body, <<>>)
       ELSE Run("update_task", raw, "none", "updated", TRUE, body,
                IF body.percent_complete # <<>> THEN body.percent_complete
                ELSE <<StoredPercent>>)

\* -------------------------------------------------------------- search

\* Text is a sequence of letters; str.lower() letter by letter.
Letters == {"d", "D", "e", "E"}
LowerLetter(c) == CASE c = "D" -> "d" [] c = "E" -> "e" [] OTHER -> c
Lower(str) == [i \in 1..Len(str) |-> LowerLetter(str[i])]

\* Python's  sub in str.
Contains(sub, str) ==
    \E i \in 0..(Len(str) - Len(sub)) :
        \A j \in 1..Len(sub) : str[i + j] = sub[j]

\* [x for x in items if query.lower() in x.get("name", "").lower()]
FilterByName(items, query) ==
    SelectSeq(items, LAMBDA x : Contains(Lower(query), Lower(x.name)))

\* get_all_projects(status): the request carries params={"status": status}
\* and the API answers with the projects of that status.
GetAllProjects(projects, status) ==
    SelectSeq(projects, LAMBDA x : x.status = status)

\* get_all_tasks(project_id) without filters: all the project's tasks.
GetAllTasks(tasks) == tasks

\* search_projects(query): get_all_projects() has status = "active".
SearchProjects(projects, query) ==
    FilterByName(GetAllProjects(projects, "active"), query)

\* search_tasks(project_id, query).
SearchTasks(tasks, query) == FilterByName(GetAllTasks(tasks), query)

\* ------------------------------------------------------ the tools' texts

\* Python's items[:n]: the first n items, and for a negative n all but the
\* last -n.
SliceTo(items, n) ==
    LET m == IF n >= 0 THEN n ELSE Len(items) + n
        k == IF m < 0 THEN 0 ELSE IF m > Len(items) THEN Len(items) ELSE m
    IN SubSeq(items, 1, k)

\* The listing tools with a limit.
ListingTools == {"list_all_projects", "search_projects", "search_tasks",
                 "get_time_logs"}

\* What a listing tool's _run makes of the items the client returned, with
\* limit <<>> (None) or <<n>>: "No ... found" for no items; else the items
\* to list, cut only if limit is true (not None, not 0), and the mark
\* "(Showing first n results)".
Listing(items, limit) ==
    IF items = <<>>
    THEN [text |-> "none_found", listed |-> <<>>, marker |-> FALSE]
    ELSE LET cut == IF limit # <<>> /\ limit[1] # 0
                    THEN SliceTo(items, limit[1]) ELSE items
         IN [text |-> "found", listed |-> cut,
             marker |-> limit # <<>> /\ Len(cut) = limit[1] /\ limit[1] # 0]

\* The fields of an entity each tool's text shows.
ShownFields(tool) ==
    CASE tool \in {"list_all_projects", "search_projects"} ->
            {"name", "id", "status", "description"}
      [] tool = "get_project_details" ->
            {"name", "id", "status", "description", "start_date", "end_date",
             "task_count", "milestone_count"}
      [] tool = "create_project" -> {"name", "id", "status"}
      [] tool = "search_tasks" ->
            {"name", "id", "status", "priority", "percent_complete"}
      [] tool = "get_task_details" ->
            {"name", "id", "status", "priority", "percent_complete",
             "description", "start_date", "end_date", "owners"}
      [] tool = "create_task" -> {"name", "id", "status", "priority"}
      [] tool = "update_task" ->
            {"name", "id", "status", "priority", "percent_complete"}
      [] tool = "get_tasklists" -> {"name", "id", "completed", "view_type"}
      [] tool = "create_tasklist" -> {"name", "id", "view_type"}
      [] tool = "get_time_logs" ->
            {"hours_display", "log_date", "owner_name", "bill_status", "notes"}
      [] tool = "get_all_time_logs" ->
            {"hours_display", "log_date", "project.name", "project.id",
             "task.name", "task.id", "owner_name", "bill_status",
             "approval_status", "notes"}
      [] tool = "add_time_log" ->
            {"log_date", "hours_display", "owner_name", "bill_status"}

\* The kind of entity a tool lists or reports.
Entity(tool) ==
    CASE tool \in {"list_all_projects", "search_projects",
                   "get_project_details", "create_project"} -> "project"
      [] tool \in {"search_tasks", "get_task_details", "create_task",
                   "update_task"} -> "task"
      [] tool \in {"get_tasklists", "create_tasklist"} -> "tasklist"
      [] OTHER -> "timelog"

\* ------------------------------------------------------ _format_response

\* A piece of the agent's response: its first len characters, with the
\* mark "..." after them or not.  The response itself has n characters.
Piece(len, marker) == [of |-> "response", len |-> len, marker |-> marker]
\* The card's greeting of the user.
Greeting == [of |-> "greeting", len |-> 0, marker |-> FALSE]

\* response[:k] of a response of n characters.
Prefix(n, k) == IF n < k THEN n ELSE k

\* FormatResponse with the comparison off by one: a response of exactly
\* max_length characters gets a card.
FormatResponseBelow(n) ==
    IF n < MaxLength
    THEN [text |-> Piece(n, FALSE), card |-> <<>>]
    ELSE [text |-> Greeting,
          card |-> <<Piece(Prefix(n, MaxLength), n > MaxLength)>>]

\* _format_response of a response of n characters: the message's "text",
\* and the text element of its "card", <<>> when it has no card.
FormatResponse(n) ==
    IF n <= MaxLength
    THEN [text |-> Piece(n, FALSE), card |-> <<>>]
    ELSE [text |-> Greeting,
          card |-> <<Piece(Prefix(n, MaxLength), n > MaxLength)>>]

\* ---------------------------------------------------- conversation memory

Text(text, u, exc) == [text |-> text, u |-> u, exc |-> exc]
NoText == Text("", 0, "none")
\* The k-th utterance and the model's final answer to it.
Utterance(u) == Text("utterance", u, "none")
Answer(u) == Text("answer", u, "none")
\* The executor's output when it stops at the ceiling of rounds.
StoppedText == Text("Agent stopped due to max iterations.", 0, "none")
\* chat's text for an exception e.
ErrorText(e) == Text("An error occurred: ", 0, e)

HumanMessage(content) == [type |-> "human", content |-> content]
AIMessage(content) == [type |-> "ai", content |-> content]

\* The last n elements of the sequence s (all of it when it is shorter).
Last(s, n) == IF Len(s) <= n THEN s ELSE SubSeq(s, Len(s) - n + 1, Len(s))

\* Window counting messages where the memory counts exchanges.
WindowOfMessages(msgs, k) == IF k > 0 THEN Last(msgs, k) ELSE <<>>

\* The memory's window: what load_memory_variables gives the prompt as
\* chat_history, the last 2k messages.
Window(msgs, k) == IF k > 0 THEN Last(msgs, 2 * k) ELSE <<>>

\* SaveContext that keeps the output and drops the utterance.
SaveContextOutputOnly(msgs, u, output) == msgs \o <<AIMessage(output)>>

\* The memory after save_context: the utterance and the output are appended
\* to chat_memory.messages.
SaveContext(msgs, u, output) ==
    msgs \o <<HumanMessage(Utterance(u)), AIMessage(output)>>

\* GetConversationHistory listing the newest message first.
\* A clear that keeps the last exchange.
ClearKeepsLastExchange(msgs) == Last(msgs, 2)

\* memory.clear(): the buffer without any message.
Clear(msgs) == <<>>

GetConversationHistoryNewestFirst(msgs) ==
    [i \in 1..Len(msgs) |->
        [type |-> msgs[Len(msgs) + 1 - i].type,
         content |-> msgs[Len(msgs) + 1 - i].content]]

\* get_conversation_history: every message of chat_memory.messages, typed.
GetConversationHistory(msgs) ==
    [i \in 1..Len(msgs) |-> [type |-> msgs[i].type, content |-> msgs[i].content]]

\* ------------------------------------------------------------ the agent loop

\* ShouldContinue with the comparison off by one.
ShouldContinueInclusive(n, ceiling) == n <= ceiling

\* The executor's _should_continue.
ShouldContinue(n, ceiling) == n < ceiling

\* ChatResult of a chat whose except clause names the client's exceptions
\* only: any other exception reaches the caller.
ChatResultClientErrorsOnly(raised, output) ==
    IF raised \in {"ZohoAPIError", "ZohoAuthError"}
    THEN [kind |-> "string", text |-> ErrorText(raised), caught |-> raised]
    ELSE IF raised # "none"
    THEN [kind |-> "exception", text |-> NoText, caught |-> "none"]
    ELSE [kind |-> "string", text |-> output, caught |-> "none"]

\* What chat gives its caller: the output of the executor, or, for an
\* exception raised under its try (caught names it), the error text.
ChatResult(raised, output) ==
    IF raised # "none"
    THEN [kind |-> "string", text |-> ErrorText(raised), caught |-> raised]
    ELSE [kind |-> "string", text |-> output, caught |-> "none"]

NoResult == [kind |-> "none", text |-> NoText, caught |-> "none"]

\* What the model answers in a round.
PlanDecisions == {"final_answer", "tool_calls", "unparsable", "model_error"}

\* lastCall: the tool and its arguments, the API's answer to its request,
\* the exception that left the client method (exc) and tool.run (raised),
\* the text tool.run returned, whether a client method ran and whether its
\* request went out.
NoCall == [tool |-> "none", args |-> "none", api |-> "none", exc |-> "none",
           raised |-> "none", text |-> NoToolText, called |-> FALSE,
           sent |-> FALSE, read |-> <<>>, users_list |-> "none"]

\* ---------------------------------------------------------------- actions

\* lastOp when no operation has ended at the current time.
NoOp == [op |-> "none", exc |-> "none", valid_before |-> FALSE,
         refreshes |-> 0, attempts |-> 0, sent |-> FALSE, token |-> <<>>,
         response |-> NoResponse, prev_token |-> <<>>, error |-> NoError]

SetCred(c) ==
    /\ access_token' = c.access_token
    /\ token_expires_at' = c.token_expires_at
    /\ issued' = c.issued
    /\ real_expiry' = c.real_expiry
    /\ expiry_from' = c.expiry_from

\* The record of a _make_request that ended as m on the answer r.
RequestOp(m, r) ==
    [op |-> "make_request", exc |-> m.exc,
     valid_before |-> TokenValid(Cred, now), refreshes |-> m.refreshes,
     attempts |-> m.attempts, sent |-> m.sent, token |-> m.token, response |-> r,
     prev_token |-> access_token, error |-> m.error]

\* The answers the authorization endpoint may give to an operation started
\* now: none is asked for while the cached token is valid.
Answers == IF TokenValid(Cred, now) THEN {NoResponse} ELSE ResponsesIn(Cred)

\* A step that does not use the client leaves its fields alone.
ClientIdle ==
    /\ lastOp' = NoOp
    /\ UNCHANGED <<now, access_token, token_expires_at, issued, real_expiry,
                   expiry_from>>
    /\ UNCHANGED toolVars
    /\ UNCHANGED threadVars

\* Time passes.
Tick(d) ==
    /\ now + d <= MaxTime
    /\ now' = now + d
    /\ lastOp' = NoOp
    /\ UNCHANGED <<access_token, token_expires_at, issued, real_expiry,
                   expiry_from>>
    /\ UNCHANGED agentVars
    /\ UNCHANGED toolVars
    /\ UNCHANGED threadVars
    /\ UNCHANGED webVars

\* A call of _get_access_token.
CallGetAccessToken(r) ==
    LET g == GetAccessToken(Cred, now, r) IN
    /\ SetCred(g.cred)
    /\ lastOp' = [op |-> "get_access_token", exc |-> g.exc,
                  valid_before |-> TokenValid(Cred, now),
                  refreshes |-> g.refreshes, attempts |-> 0,
                  sent |-> FALSE, token |-> g.ret,
                  response |-> r, prev_token |-> access_token,
                  error |-> NoError]
    /\ UNCHANGED now
    /\ UNCHANGED agentVars
    /\ UNCHANGED toolVars
    /\ UNCHANGED threadVars
    /\ UNCHANGED webVars

\* A call of _make_request (through any resource method of the client).
CallMakeRequest(r, a) ==
    LET m == MakeRequest(Cred, now, r, a) IN
    /\ SetCred(m.cred)
    /\ lastOp' = RequestOp(m, r)
    /\ UNCHANGED now
    /\ UNCHANGED agentVars
    /\ UNCHANGED toolVars
    /\ UNCHANGED threadVars
    /\ UNCHANGED webVars

\* chat(message) is called: the executor loads the memory's window into the
\* prompt and enters its loop.
ChatStart(limit) ==
    /\ pc = "idle"
    /\ chats < limit
    /\ chats' = chats + 1
    /\ input' = chats + 1
    /\ chat_history' = Window(messages, K)
    /\ iterations' = 0
    /\ pending' = 0
    /\ lastCall' = NoCall
    /\ returned' = NoResult
    /\ pc' = "loop"
    /\ UNCHANGED <<max_iterations, messages>>
    /\ ClientIdle

\* chat(message) is called by the command-line shell.
ChatBegin(limit) ==
    /\ ChatStart(limit)
    /\ UNCHANGED webVars

\* The executor returns output: it is saved to the memory with the
\* utterance, and chat returns it.
Finish(output) ==
    /\ messages' = SaveContext(messages, input, output)
    /\ returned' = ChatResult("none", output)
    /\ pc' = "idle"

\* An exception exc leaves the executor: nothing is saved, and chat returns
\* what its except clause makes of it.
Abort(exc) ==
    /\ messages' = messages
    /\ returned' = ChatResult(exc, NoText)
    /\ pc' = "idle"

\* The loop stops at the ceiling of rounds with the fixed output.
Stop ==
    /\ pc = "loop"
    /\ ~ShouldContinue(iterations, max_iterations)
    /\ Finish(StoppedText)
    /\ UNCHANGED <<max_iterations, chats, input, chat_history, iterations,
                   pending, lastCall>>
    /\ ClientIdle
    /\ UNCHANGED webVars

\* A round begins: the model is asked for the next action and answers d,
\* with n tool calls if it asks for tools.
Plan(d, n) ==
    /\ pc = "loop"
    /\ ShouldContinue(iterations, max_iterations)
    /\ CASE d = "final_answer" ->
                /\ Finish(Answer(input))
                /\ UNCHANGED <<iterations, pending>>
         [] d = "model_error" ->
                /\ Abort("ModelError")
                /\ UNCHANGED <<iterations, pending>>
         [] d = "unparsable" ->
                /\ iterations' = iterations + 1
                /\ UNCHANGED <<messages, returned, pc, pending>>
         [] OTHER ->
                /\ pending' = n
                /\ pc' = "tools"
                /\ UNCHANGED <<messages, returned, iterations>>
    /\ lastCall' = NoCall
    /\ UNCHANGED <<max_iterations, chats, input, chat_history>>
    /\ ClientIdle
    /\ UNCHANGED webVars

\* The next tool call of the round is executed.  A name that is no tool's
\* gets the executor's own text; an exception of the tool leaves the
\* executor; after the round's last call the round is counted.
ToolStep(tool, args, r, a) ==
    /\ pc = "tools"
    /\ IF tool \notin ToolNames
       THEN /\ lastCall' = [NoCall EXCEPT !.tool = tool, !.args = args,
                                          !.text = ToolText("invalid_tool", tool, "")]
            /\ ClientIdle
            /\ pending' = pending - 1
            /\ iterations' = IF pending = 1 THEN iterations + 1 ELSE iterations
            /\ pc' = IF pending = 1 THEN "loop" ELSE "tools"
            /\ UNCHANGED <<messages, returned>>
       ELSE LET x == ToolRun(tool, args, Cred, now, r, a) IN
            /\ lastCall' = [tool |-> tool, args |-> args,
                            api |-> IF x.m.sent THEN a ELSE "none",
                            exc |-> x.m.exc, raised |-> x.raised, text |-> x.text,
                            called |-> x.called, sent |-> x.m.sent,
                            read |-> ToolContext(tool, args, context).read,
                            users_list |->
                                ToolContext(tool, args, context).users_list]
            /\ SetCred(x.m.cred)
            /\ lastOp' = IF x.called THEN RequestOp(x.m, r) ELSE NoOp
            /\ UNCHANGED now
            /\ IF x.raised # "none"
               THEN /\ Abort(x.raised)
                    /\ UNCHANGED <<iterations, pending>>
               ELSE /\ pending' = pending - 1
                    /\ iterations' = IF pending = 1 THEN iterations + 1
                                     ELSE iterations
                    /\ pc' = IF pending = 1 THEN "loop" ELSE "tools"
                    /\ UNCHANGED <<messages, returned>>
    /\ UNCHANGED <<max_iterations, chats, input, chat_history>>
    /\ UNCHANGED toolVars
    /\ UNCHANGED threadVars
    /\ UNCHANGED webVars

\* The threads that call the client.
Threads == {1, 2}

\* A thread outside the client: at is the time of its refresh exchange, tok
\* the token the exchange issued (0: none), saw the credential fields its
\* check read, token the token its request was sent with.
IdleThread ==
    [pc |-> "idle", response |-> NoResponse, at |-> 0, tok |-> 0,
     saw |-> <<<<>>, <<>>>>, token |-> <<>>, exc |-> "none"]

\* A thread whose call has ended: what is left of it is the token its
\* request was sent with, or the exception that ended it.
Ended(token, exc) == [IdleThread EXCEPT !.token = token, !.exc = exc]

\* No web request was served yet.
NoWebRequest == [endpoint |-> "none", caller |-> <<>>]

\* The steps of a thread leave all else alone.
ThreadFrame ==
    /\ UNCHANGED <<now, lastOp>>
    /\ UNCHANGED agentVars
    /\ UNCHANGED toolVars
    /\ UNCHANGED webVars

\* Thread t calls _make_request, which calls _get_access_token.
ThreadCall(t) ==
    /\ thread[t].pc = "idle"
    /\ thread' = [thread EXCEPT ![t] = [IdleThread EXCEPT !.pc = "check"]]
    /\ UNCHANGED <<access_token, token_expires_at, issued, real_expiry,
                   expiry_from>>
    /\ ThreadFrame

\* Thread t evaluates the condition of _get_access_token on the fields as
\* they are now, and goes on to refresh or to return the cached token.
ThreadCheck(t) ==
    /\ thread[t].pc = "check"
    /\ thread' = [thread EXCEPT
                    ![t].saw = <<access_token, token_expires_at>>,
                    ![t].pc = IF TokenValid(Cred, now) THEN "cached"
                              ELSE "post"]
    /\ UNCHANGED <<access_token, token_expires_at, issued, real_expiry,
                   expiry_from>>
    /\ ThreadFrame

\* Thread t returns self._access_token from _get_access_token.
ThreadCached(t) ==
    /\ thread[t].pc = "cached"
    /\ thread' = [thread EXCEPT ![t].token = access_token, ![t].pc = "send"]
    /\ UNCHANGED <<access_token, token_expires_at, issued, real_expiry,
                   expiry_from>>
    /\ ThreadFrame

\* Thread t posts to the authorization endpoint and reads the answer r: a
\* failure or a body without access_token ends its call with an exception,
\* nothing assigned.
ThreadPost(t, r) ==
    /\ thread[t].pc = "post"
    /\ IF Issues(r)
       THEN /\ issued' = issued + 1
            /\ thread' = [thread EXCEPT ![t].response = r, ![t].at = now,
                                        ![t].tok = issued + 1,
                                        ![t].pc = "store_token"]
       ELSE /\ issued' = issued
            /\ thread' = [thread EXCEPT
                            ![t] = Ended(<<>>,
                                     RefreshAccessToken(Cred, now, r).exc)]
    /\ UNCHANGED <<access_token, token_expires_at, real_expiry, expiry_from>>
    /\ ThreadFrame

\* Thread t assigns self._access_token.
ThreadStoreToken(t) ==
    /\ thread[t].pc = "store_token"
    /\ access_token' = <<thread[t].tok>>
    /\ real_expiry' = <<thread[t].at + Lifetime(thread[t].response)>>
    /\ thread' = [thread EXCEPT ![t].pc = "store_expiry"]
    /\ UNCHANGED <<token_expires_at, issued, expiry_from>>
    /\ ThreadFrame

\* Thread t computes the expiry and assigns self._token_expires_at; a
\* non-numeric expires_in ends its call with TypeError instead.
ThreadStoreExpiry(t) ==
    /\ thread[t].pc = "store_expiry"
    /\ IF thread[t].response.kind = "bad_expires_in"
       THEN /\ thread' = [thread EXCEPT ![t] = Ended(<<>>, "TypeError")]
            /\ UNCHANGED <<token_expires_at, expiry_from>>
       ELSE LET r == thread[t].response
                e == IF r.expires_in # <<>> THEN r.expires_in[1]
                     ELSE DefaultExpiresIn
            IN /\ token_expires_at' = <<ExpiresAt(now, e)>>
               /\ expiry_from' = <<thread[t].tok>>
               /\ thread' = [thread EXCEPT ![t].pc = "return"]
    /\ UNCHANGED <<access_token, issued, real_expiry>>
    /\ ThreadFrame

\* Thread t returns self._access_token from _refresh_access_token.
ThreadReturn(t) ==
    /\ thread[t].pc = "return"
    /\ thread' = [thread EXCEPT ![t].token = access_token, ![t].pc = "send"]
    /\ UNCHANGED <<access_token, token_expires_at, issued, real_expiry,
                   expiry_from>>
    /\ ThreadFrame

\* Thread t sends its request with the token it got, and its call ends.
ThreadSend(t) ==
    /\ thread[t].pc = "send"
    /\ thread' = [thread EXCEPT ![t] = Ended(thread[t].token, "none")]
    /\ UNCHANGED <<access_token, token_expires_at, issued, real_expiry,
                   expiry_from>>
    /\ ThreadFrame

\* The user ids of the webhook's payloads: none (<<>>), or one of two
\* users'.
CallerIds == {<<>>, <<"u1">>, <<"u2">>}

\* What the webhook does with a payload once the identity is stored: it
\* answers without the agent (no text, a bot's message, no mention of the
\* bot, nothing left of the text), or it calls the agent.
WebhookKinds == {"no_chat", "chat"}

\* POST /cliq/webhook with the user id caller: the id, if there is one, is
\* stored in the thread's context, and then the agent is called or not.
WebhookRequest(caller, kind) ==
    /\ pc = "idle"
    /\ context' = IF caller # <<>> THEN SetUserContext(context, caller[1])
                  ELSE context
    /\ IF kind = "chat"
       THEN /\ ChatStart(MaxRequests)
            /\ request' = [endpoint |-> "webhook", caller |-> caller]
       ELSE /\ UNCHANGED agentVars
            /\ ClientIdle
            /\ UNCHANGED request

\* POST /chat: the agent is called; the payload has no user id and the
\* handler does not touch the context.
ChatEndpoint ==
    /\ ChatStart(MaxRequests)
    /\ request' = [endpoint |-> "chat", caller |-> <<>>]
    /\ UNCHANGED context

\* reset_conversation: memory.clear().
ResetConversation ==
    /\ pc = "idle"
    /\ messages' = Clear(messages)
    /\ UNCHANGED <<max_iterations, pc, chats, input, chat_history, iterations,
                   pending, lastCall, returned>>
    /\ ClientIdle
    /\ UNCHANGED webVars

\* The state after the agent is constructed: an empty memory, a client
\* without a token, and the ceiling of rounds the settings give.
Init ==
    /\ now = 0
    /\ access_token = InitCred.access_token
    /\ token_expires_at = InitCred.token_expires_at
    /\ issued = InitCred.issued
    /\ real_expiry = InitCred.real_expiry
    /\ expiry_from = InitCred.expiry_from
    /\ lastOp = NoOp
    /\ max_iterations \in Ceilings
    /\ messages = <<>>
    /\ pc = "idle"
    /\ chats = 0
    /\ input = 0
    /\ chat_history = <<>>
    /\ iterations = 0
    /\ pending = 0
    /\ lastCall = NoCall
    /\ returned = NoResult
    /\ lastRun = NoRun
    /\ thread = [t \in Threads |-> IdleThread]
    /\ context = <<>>
    /\ request = NoWebRequest

\* Whether tool.run(arguments) gets as far as a request of the client.
Requests(tool, args) ==
    /\ tool \in ToolNames
    /\ args = "valid"
    /\ ClientMethod(tool) \in ClientMethods

\* The answers of the authorization endpoint in the agent's runs: one
\* failure of each outcome, and tokens of the shortest and of the default
\* lifetime.
AgentAnswers ==
    {r \in Answers :
        /\ r.kind \notin {"network_error", "not_json"}
        /\ Issues(r) => Lifetime(r) \in {120, DefaultExpiresIn}}

\* The answers of the downstream API in the agent's runs.
AgentApiResponses == {"http_error", "empty", "json"}

\* The answers of the two servers to a tool call: none where tool.run
\* makes no request, no answer of the API where the token fetch fails.
ServerAnswers(tool, args) ==
    IF ~Requests(tool, args) THEN {<<NoResponse, "none">>}
    ELSE {<<r, "none">> : r \in {x \in AgentAnswers : x.kind \notin {"ok", "none"}}}
         \cup ({x \in AgentAnswers : x.kind \in {"ok", "none"}}
               \X AgentApiResponses)

\* A step of the chat call in progress.
ChatStep ==
    \/ Stop
    \/ \E d \in PlanDecisions \ {"tool_calls"} : Plan(d, 1)
    \/ \E n \in 1..MaxToolCalls : Plan("tool_calls", n)
    \/ \E tool \in ToolNames \cup {"no_such_tool"} :
         \E args \in ArgClasses(tool) :
            \E ra \in ServerAnswers(tool, args) :
               ToolStep(tool, args, ra[1], ra[2])

\* The JSON arguments the model gives update_task.
UpdateTaskArguments ==
    [project_id : {Word},
     task_id : {Word, Absent, IntValue(7)},
     name : {Absent, EmptyStr, Word},
     description : {Absent, Word},
     percent_complete : {Absent, Null, IntValue(0), IntValue(50),
                         IntValue(150), IntValue(-5), StrOfInt(50), Word,
                         FloatWhole(50), FloatHalf(50)},
     priority : {Absent, Word}]

\* The names of the items the API holds (<<>>: an item without a name) and
\* the queries searched for.
Names == {<<>>, <<"d">>, <<"D">>, <<"e">>, <<"d", "e">>, <<"D", "e">>,
          <<"D", "E">>, <<"e", "d">>}
Queries == {<<>>, <<"d">>, <<"D">>, <<"d", "e">>, <<"D", "E">>, <<"e", "D">>}

\* The collections of at most MaxItems items with a status among statuses;
\* the k-th item has the identifier k.
Collections(statuses) ==
    UNION {{[k \in 1..n |-> [id |-> k, name |-> f[k][1], status |-> f[k][2]]] :
               f \in [1..n -> Names \X statuses]} : n \in 0..MaxItems}

\* A step that runs an operation on its own leaves the agent and the
\* client alone.  The operations run so keep no state between runs: each
\* is run from the state after construction.
OnItsOwn ==
    /\ UNCHANGED clientVars
    /\ UNCHANGED agentVars
    /\ UNCHANGED threadVars
    /\ UNCHANGED webVars

\* update_task is run with some arguments.
RunUpdateTask(raw, a) ==
    /\ lastRun = NoRun
    /\ lastRun' = UpdateTaskRun(raw, a)
    /\ OnItsOwn

\* The client's search_projects is run on a portal's projects.
RunSearchProjects(projects, query) ==
    /\ lastRun = NoRun
    /\ lastRun' = [op |-> "search_projects", items |-> projects,
                   query |-> query, found |-> SearchProjects(projects, query)]
    /\ OnItsOwn

\* The client's search_tasks is run on a project's tasks.
RunSearchTasks(tasks, query) ==
    /\ lastRun = NoRun
    /\ lastRun' = [op |-> "search_tasks", items |-> tasks,
                   query |-> query, found |-> SearchTasks(tasks, query)]
    /\ OnItsOwn

\* The limits a listing tool is given: none, or an integer.
Limits == {<<>>} \cup {<<n>> : n \in -1..(MaxItems + 1)}

\* A listing tool's _run on the n items the client returned.
RunListing(tool, n, limit) ==
    /\ lastRun = NoRun
    /\ lastRun' = [op |-> "listing", tool |-> tool,
                   items |-> [k \in 1..n |-> k], limit |-> limit,
                   out |-> Listing([k \in 1..n |-> k], limit)]
    /\ OnItsOwn

\* A tool's _run reports the entity with the identifier id that its client
\* call returned: the text shows of it the fields of ShownFields.
RunReport(tool, id) ==
    /\ lastRun = NoRun
    /\ ClientMethod(tool) \in ClientMethods
    /\ lastRun' = [op |-> "report", tool |-> tool, entity |-> Entity(tool),
                   id |-> id, shown |-> ShownFields(tool)]
    /\ OnItsOwn

\* The bodies of the API's successful responses: no bytes, or an object
\* with some of the envelope keys, each with a list of at most MaxItems
\* items.
ItemLists == {[k \in 1..n |-> k] : n \in 0..MaxItems}
Objects ==
    UNION {[keys -> ItemLists] : keys \in SUBSET {"projects", "tasks"}}
Contents ==
    {[empty |-> TRUE, object |-> EmptyObject]}
    \cup {[empty |-> FALSE, object |-> o] : o \in Objects}

\* get_all_projects is run and the API answers with a successful response.
RunGetAllProjects(content) ==
    /\ lastRun = NoRun
    /\ lastRun' = [op |-> "get_all_projects", content |-> content,
                   response |-> DecodedBody(content),
                   out |-> GetAllProjectsOf(content)]
    /\ OnItsOwn

\* The environments the program is started in: each required field is
\* absent, set to the empty string, or set to a value.
Environments == [RequiredFields -> {"absent", "empty", "value"}]

\* The program is started in the environment env.
RunStartup(env) ==
    /\ lastRun = NoRun
    /\ lastRun' = [op |-> "startup", env |-> env, out |-> Startup(env)]
    /\ OnItsOwn

\* The lengths of the agent's responses the webhook formats.
ResponseLengths == {0, 1, MaxLength - 1, MaxLength, MaxLength + 1,
                    MaxLength + 2, 2 * MaxLength}

\* _format_response is run on a response of n characters.
RunFormatResponse(n) ==
    /\ lastRun = NoRun
    /\ lastRun' = [op |-> "format_response", len |-> n,
                   out |-> FormatResponse(n)]
    /\ OnItsOwn

NextClient ==
    \/ \E d \in TickSteps : Tick(d)
    \/ \E r \in Answers : CallGetAccessToken(r)
    \/ \E r \in Answers, a \in ApiResponses : CallMakeRequest(r, a)

NextAgent ==
    \/ ChatBegin(MaxChats)
    \/ ChatStep
    \/ ResetConversation

NextSession ==
    \/ ChatBegin(MaxSessionChats)
    \/ Stop
    \/ \E d \in {"final_answer", "model_error"} : Plan(d, 1)
    \/ ResetConversation

\* The answers of the authorization endpoint to the threads' exchanges.
ThreadAnswers ==
    {r \in ResponsesIn(Cred) :
        /\ r.kind \in {"http_error", "bad_expires_in", "ok"}
        /\ Issues(r) => Lifetime(r) = 900}

NextThreads ==
    \/ \E d \in TickSteps : Tick(d)
    \/ \E t \in Threads : ThreadCall(t)
    \/ \E t \in Threads : ThreadCheck(t)
    \/ \E t \in Threads : ThreadCached(t)
    \/ \E t \in Threads : \E r \in ThreadAnswers : ThreadPost(t, r)
    \/ \E t \in Threads : ThreadStoreToken(t)
    \/ \E t \in Threads : ThreadStoreExpiry(t)
    \/ \E t \in Threads : ThreadReturn(t)
    \/ \E t \in Threads : ThreadSend(t)

NextWeb ==
    \/ \E caller \in CallerIds, kind \in WebhookKinds :
         WebhookRequest(caller, kind)
    \/ ChatEndpoint
    \/ Stop
    \/ \E d \in {"final_answer", "tool_calls", "model_error"} : Plan(d, 1)
    \/ \E args \in ArgClasses("get_all_time_logs") :
         ToolStep("get_all_time_logs", args, NoResponse, "none")

\* The inputs of a run: each operation is run on its own, from the state
\* after construction, so there are none once one has run.
Inputs(S) == IF lastRun = NoRun THEN S ELSE {}

NextTools ==
    \/ \E raw \in Inputs(UpdateTaskArguments), a \in AgentApiResponses :
          RunUpdateTask(raw, a)
    \/ \E projects \in Inputs(Collections({"active", "archived"})),
          q \in Queries :
          RunSearchProjects(projects, q)
    \/ \E tasks \in Inputs(Collections({"open", "closed"})), q \in Queries :
          RunSearchTasks(tasks, q)
    \/ \E tool \in Inputs(ListingTools), n \in 0..MaxItems, limit \in Limits :
          RunListing(tool, n, limit)
    \/ \E tool \in Inputs(ToolNames), id \in 1..MaxItems : RunReport(tool, id)
    \/ \E n \in Inputs(ResponseLengths) : RunFormatResponse(n)
    \/ \E content \in Inputs(Contents) : RunGetAllProjects(content)
    \/ \E env \in Inputs(Environments) : RunStartup(env)

\* The client alone: requests and token fetches at arbitrary times.
SpecClient == Init /\ [][NextClient]_vars

\* The agent: a few chat calls, every answer of the model, of the tools and
\* of the two servers.
SpecAgent == Init /\ [][NextAgent]_vars

\* A long session: many chat calls whose rounds call no tools.
SpecSession == Init /\ [][NextSession]_vars

\* The tools and the formatters, each run on its own on every input.
SpecTools == Init /\ [][NextTools]_vars

\* Two threads that call the same client, their steps interleaved.
SpecThreads == Init /\ [][NextThreads]_vars

\* The web application: requests to the webhook and to POST /chat, served
\* one after another on the event loop's thread, whose chat calls call
\* get_all_time_logs.
SpecWeb == Init /\ [][NextWeb]_vars

Spec == SpecAgent

\* ------------------------------------------------------- credential claims

\* The last operation was a request that went out with a token attached.
Attached == lastOp.op = "make_request" /\ lastOp.sent

\* The time the attached token is still accepted for by the server.
Remaining == real_expiry[1] - now

\* The last operation asked the authorization endpoint and the exchange
\* did not end in a returned token.
RefreshFailed == lastOp.refreshes = 1 /\ lastOp.response.kind # "ok"

\* C5 as stated: whenever _make_request attaches the token, the token's real
\* expiry (refresh time + expires_in) is at least the safety margin of five
\* minutes in the future, whatever expires_in the endpoint answered.
C5_AttachedTokenHasMargin == Attached => Remaining >= SafetyMargin

\* C5 amended: a token attached from the cache has more than the margin
\* left; a token attached by the request that refreshed it has the margin
\* left unless the endpoint issued it with expires_in below the margin; a
\* cached token that is not valid any more is replaced before the request.
C5_AttachedTokenHasMarginUnlessShortLived ==
    Attached =>
        /\ lastOp.refreshes = 0 => Remaining > SafetyMargin
        /\ lastOp.refreshes = 1 =>
              \/ Remaining >= SafetyMargin
              \/ Lifetime(lastOp.response) < SafetyMargin
        /\ ~lastOp.valid_before =>
              lastOp.refreshes = 1 /\ lastOp.token # lastOp.prev_token

\* C5's case: a request goes out with a cached token after time has passed.
C5_Witness ==
    Attached /\ lastOp.refreshes = 0 /\ now > 0 /\ Remaining < DefaultExpiresIn

\* C6: a call of _get_access_token with a still valid cached token asks the
\* endpoint nothing and returns the cached token, so that two calls in
\* succession make at most one exchange; a call at or after the recorded
\* expiry makes exactly one exchange.
C6_RefreshIdempotence ==
    [][(\E r \in Answers : CallGetAccessToken(r)) =>
        /\ TokenValid(Cred, now) =>
              /\ lastOp'.refreshes = 0
              /\ lastOp'.token = access_token
              /\ access_token' = access_token
              /\ token_expires_at' = token_expires_at
        /\ lastOp.op = "get_access_token" /\ TokenValid(Cred, now) =>
              lastOp.refreshes + lastOp'.refreshes <= 1
        /\ (/\ access_token # <<>>
            /\ token_expires_at # <<>>
            /\ now >= token_expires_at[1]) => lastOp'.refreshes = 1]_vars

\* C6's case: the second of two calls in succession, the first of which
\* refreshed, returned the cached token without an exchange.
C6_Witness ==
    /\ lastOp.op = "get_access_token"
    /\ lastOp.valid_before
    /\ lastOp.refreshes = 0
    /\ lastOp.token = access_token

\* C7: a refresh exchange that fails (network error, non-2xx status, a 2xx
\* body that is not JSON or has no access_token) fails the operation with
\* ZohoAuthError and nothing else, after a single exchange.
C7_FailedExchangeRaisesAuthError ==
    /\ lastOp.refreshes <= 1
    /\ (/\ lastOp.refreshes = 1
        /\ lastOp.response.kind \in RefreshFailures \cup {"no_access_token"})
       => lastOp.exc = "ZohoAuthError"

\* C8: after a failed refresh the client holds no token it takes as valid,
\* and the cached token is the one it held before the exchange.
C8_FailedRefreshLeavesTokenUntouched ==
    RefreshFailed =>
        /\ ~TokenValid(Cred, now)
        /\ access_token = lastOp.prev_token

\* ------------------------------------------------------------ agent claims

\* C1: chat returns a string to its caller whatever the model, the tools
\* and the two servers do, and raises nothing; when an exception reached
\* its boundary the string is "An error occurred: " and the exception's
\* message.
C1_ChatIsTotal ==
    /\ returned.kind \in {"none", "string"}
    /\ (pc = "idle" /\ chats > 0) => returned.kind = "string"
    /\ returned.caught # "none" => returned.text = ErrorText(returned.caught)
    /\ (pc = "idle" /\ lastCall.raised # "none") =>
          returned.caught = lastCall.raised

\* C1's case: an exception that is none of the client's own, raised inside
\* a tool, ended the chat call with the error text.
C1_Witness ==
    /\ pc = "idle"
    /\ lastCall.raised = "AttributeError"
    /\ returned = ChatResult("AttributeError", NoText)

\* The steps the chat call in progress still has before it, at most: the
\* rounds left, each at most a plan and MaxToolCalls tool calls.
StepsLeft ==
    (max_iterations - iterations) * (MaxToolCalls + 2)
    + (IF pc = "loop" THEN MaxToolCalls + 1 ELSE pending)

\* C2: the loop never runs more rounds than max_iterations; every step of
\* a chat call ends it or leaves fewer steps before its end, so it cannot
\* hang; at the ceiling the only step is the stop with the fixed text, and
\* that text is returned after exactly max_iterations rounds.
C2_RoundCeiling ==
    [][pc # "idle" =>
        /\ iterations' <= max_iterations
        /\ pc' # "idle" => StepsLeft' < StepsLeft
        /\ (pc = "loop" /\ iterations = max_iterations) =>
              /\ pc' = "idle"
              /\ returned' = ChatResult("none", StoppedText)
        /\ (pc' = "idle" /\ returned'.text = StoppedText) =>
              /\ iterations' = max_iterations
              /\ returned'.kind = "string"]_vars

\* C2's case: with the default ceiling, a chat call whose last round was a
\* tool call like the others stopped after ten rounds with the fixed text.
C2_Witness ==
    /\ pc = "idle"
    /\ max_iterations = DefaultMaxIterations
    /\ iterations = DefaultMaxIterations
    /\ lastCall.tool \in ToolNames
    /\ returned.text = StoppedText

\* The tool invocation that has just ended made a request the API failed.
ApiCallFailed == lastCall.sent /\ lastCall.api \in ApiFailures

\* C3: when the request of a tool fails at the API, the tool invocation
\* returns its error text ("<prefix>: <cause>") and raises nothing; the
\* chat call goes on, and when it has ended it has returned a string that
\* no exception was caught for.
C3_ToolFailureIsolation ==
    ApiCallFailed =>
        /\ lastCall.exc = "ZohoAPIError"
        /\ lastCall.raised = "none"
        /\ lastCall.text =
              ToolText("error", lastCall.tool, ErrorPrefix(lastCall.tool))
        /\ pc = "idle" =>
              returned.kind = "string" /\ returned.caught = "none"

\* C3's case: search_projects' request failed in the last round of a chat
\* call that has ended.
C3_Witness ==
    /\ ApiCallFailed
    /\ lastCall.tool = "search_projects"
    /\ pc = "idle"
    /\ returned.kind = "string"

\* The tool invocation that has just ended got as far as the tool's _run.
RunEntered == lastCall.tool \in ToolNames /\ lastCall.args # "invalid"

\* C4 as stated: no _run lets a failure of its client call escape: API
\* error or credential error, it returns an error text, and the loop goes
\* on.
C4_NoToolFailureEscapes ==
    RunEntered => lastCall.raised = "none"

\* C4 amended: a ZohoAPIError of the client call becomes the tool's error
\* text.  Every other exception of the client call (the ZohoAuthError,
\* KeyError or TypeError of a failed refresh, the AttributeError of
\* get_all_time_logs' call of a method the client does not define) leaves
\* _run and ends the loop; chat turns it into its error text.
C4_OnlyApiErrorsBecomeToolText ==
    RunEntered =>
        /\ lastCall.raised # "ZohoAPIError"
        /\ lastCall.exc = "ZohoAPIError" =>
              /\ lastCall.raised = "none"
              /\ lastCall.text.kind = "error"
        /\ lastCall.exc \notin {"none", "ZohoAPIError"} =>
              lastCall.raised = lastCall.exc
        /\ (lastCall.args = "valid"
            /\ ClientMethod(lastCall.tool) \notin ClientMethods) =>
              lastCall.raised = "AttributeError"
        /\ lastCall.raised # "none" =>
              /\ pc = "idle"
              /\ returned = ChatResult(lastCall.raised, NoText)

\* C4's case: the refresh behind a tool's client call failed, and the
\* ZohoAuthError left _run and ended the chat call.
C4_Witness ==
    /\ RunEntered
    /\ lastCall.called
    /\ lastCall.exc = "ZohoAuthError"
    /\ lastCall.raised = "ZohoAuthError"
    /\ returned.text = ErrorText("ZohoAuthError")

\* ----------------------------------------------------------- memory claims

\* C9: the prior turns given to the model at a chat call are at most 2K
\* messages, and they are the most recent K exchanges of the memory (all of
\* them while there are no more than K), oldest first.
C9_WindowBound ==
    pc = "loop" =>
        LET n == Len(messages)
            w == Len(chat_history)
        IN /\ w <= 2 * K
           /\ w = IF n > 2 * K THEN 2 * K ELSE n
           /\ \A i \in 1..w : chat_history[i] = messages[n - w + i]
           /\ \A j \in 1..(w \div 2) :
                 /\ chat_history[2 * j - 1].type = "human"
                 /\ chat_history[2 * j].type = "ai"
                 /\ j > 1 => chat_history[2 * j - 1].content.u
                             > chat_history[2 * j - 3].content.u

\* C9's case: a chat call after more than K completed exchanges.
C9_Witness ==
    /\ pc = "loop"
    /\ Len(messages) > 2 * K
    /\ Len(chat_history) = 2 * K
    /\ chat_history[1] = messages[Len(messages) - 2 * K + 1]

\* C10 as stated: the memory keeps at most 2K turns, so that
\* get_conversation_history never returns more than twenty.
C10_BufferBounded ==
    /\ Len(messages) <= 2 * K
    /\ Len(GetConversationHistory(messages)) <= 2 * K

\* The pair of turns of the chat call in progress, were it to return text.
Exchange(text) == <<HumanMessage(Utterance(input)), AIMessage(text)>>

\* C11 as stated: every chat call that returns, with a model answer, the
\* ceiling's fallback or a caught-error string, appends exactly the pair
\* (utterance, returned text) to the memory.
C11_EveryReturnAppendsPair ==
    [][(pc # "idle" /\ pc' = "idle") =>
          messages' = messages \o Exchange(returned'.text)]_vars

\* C11 amended: a chat call that returns a model answer or the ceiling's
\* fallback appends exactly the pair (utterance, returned text); a chat
\* call that returns a caught-error string appends nothing; no other step
\* of a chat call touches the memory.
C11_OnlySuccessfulReturnAppendsPair ==
    [][pc # "idle" =>
        /\ (pc' = "idle" /\ returned'.caught = "none") =>
              messages' = messages \o Exchange(returned'.text)
        /\ (pc' = "idle" /\ returned'.caught # "none") =>
              messages' = messages
        /\ pc' # "idle" => messages' = messages]_vars

\* C11's case: a chat call that ran tools and stopped at the ceiling left
\* its one pair in the memory, and nothing of the tools.
C11_Witness ==
    /\ pc = "idle"
    /\ returned.text = StoppedText
    /\ lastCall.tool \in ToolNames
    /\ lastCall.text.kind = "result"
    /\ messages = <<HumanMessage(Utterance(input)), AIMessage(StoppedText)>>

\* C12: get_conversation_history lists the exchanges in the order they
\* completed: a human turn and right after it the assistant turn of the same
\* chat call, the calls' utterances in increasing order.
C12_ChronologicalOrder ==
    LET h == GetConversationHistory(messages) IN
    /\ Len(h) % 2 = 0
    /\ \A j \in 1..(Len(h) \div 2) :
          /\ h[2 * j - 1].type = "human"
          /\ h[2 * j - 1].content.text = "utterance"
          /\ h[2 * j].type = "ai"
          /\ h[2 * j].content \in {Answer(h[2 * j - 1].content.u), StoppedText}
          /\ j > 1 => h[2 * j - 1].content.u > h[2 * j - 3].content.u
    /\ \A i \in 1..Len(h) : h[i].content.u <= chats

\* C12's case: three exchanges completed, and a call between them that
\* ended in an error.
C12_Witness ==
    LET h == GetConversationHistory(messages) IN
    /\ Len(h) = 6
    /\ h[1].content.u = 1
    /\ h[5].content.u = 4

\* The tool invocation that has just ended was given arguments its
\* args_schema rejects.
ArgumentsRejected == lastCall.tool \in ToolNames /\ lastCall.args = "invalid"

\* C13: a tool invocation that fails with a ValidationError or with an API
\* error gives the loop an error text as its result and raises nothing, and
\* the exchange goes on to a further round.
C13_ToolFailuresBecomeText ==
    (ArgumentsRejected \/ ApiCallFailed) =>
        /\ lastCall.raised = "none"
        /\ lastCall.text.kind = "error"

\* ------------------------------------------------------ API error claims

\* The last operation was a request that went out and failed at the API.
RequestFailed == Attached /\ lastOp.error # NoError

\* C15 as stated: a failed request ends in a ZohoAPIError, and in no other
\* exception, that carries the method, the path, the status code when the
\* failure has one, and a message.
C15_ApiErrorCarriesRequest ==
    RequestFailed =>
        /\ lastOp.exc = "ZohoAPIError"
        /\ lastOp.error.type = "ZohoAPIError"
        /\ {"method", "path", "message"} \subseteq lastOp.error.fields
        /\ lastOp.error.cause = "http_error" =>
              "status_code" \in lastOp.error.fields

\* ------------------------------------------------------ validation claims

\* The arguments of the last run of update_task.
UpdateTaskRan == lastRun.op = "update_task"

\* C14 as stated: update_task given arguments without a required one, or
\* with a percent_complete that is no integer or is outside 0..100, fails
\* with ValidationError before any call of the client; no value is
\* converted silently.
C14_ValidationRejects ==
    UpdateTaskRan =>
        LET p == lastRun.input.percent_complete IN
        /\ (\/ lastRun.input.task_id.t = "absent"
            \/ p.t \notin {"absent", "null", "int"}
            \/ (p.t = "int" /\ p.v \notin 0..100)) =>
              lastRun.raised = "ValidationError" /\ ~lastRun.called

\* C17 as stated: the body update_task sends has exactly the fields the
\* caller supplied, a percent_complete of 0 among them, and the text
\* returned shows the completion that was supplied.
C17_BodyIsWhatWasSupplied ==
    (UpdateTaskRan /\ lastRun.raised = "none") =>
        LET v == UpdateTaskInput(lastRun.input).args IN
        /\ lastRun.called
        /\ lastRun.body.fields =
              {k \in {"name", "description", "percent_complete", "priority"} :
                  v[k] # <<>>}
        /\ v.percent_complete # <<>> =>
              lastRun.completion = v.percent_complete

\* C17 amended: the body has exactly the supplied fields that are not
\* empty: a name, description or priority that is a non-empty string, and
\* any percent_complete, 0 too; with none there is no request.  The text
\* shows the completion of the task the API returned, which is the one
\* supplied when the API answers with the updated task.
C17_BodyIsWhatWasSuppliedNonEmpty ==
    (UpdateTaskRan /\ lastRun.raised = "none") =>
        LET v == UpdateTaskInput(lastRun.input).args
            sent == {k \in {"name", "description", "priority"} : Truthy(v[k])}
                    \cup {k \in {"percent_complete"} : v[k] # <<>>}
        IN /\ lastRun.called <=> sent # {}
           /\ lastRun.called =>
                 /\ lastRun.body.fields = sent
                 /\ lastRun.body.percent_complete = v.percent_complete
           /\ lastRun.text = "updated" =>
                 lastRun.completion =
                    IF v.percent_complete # <<>> THEN v.percent_complete
                    ELSE <<StoredPercent>>
           /\ lastRun.text # "updated" => lastRun.completion = <<>>

\* C17's case: update_task with percent_complete = 50 and nothing else.
C17_Witness ==
    /\ UpdateTaskRan
    /\ lastRun.input.percent_complete = IntValue(50)
    /\ lastRun.input.name = Absent
    /\ lastRun.body = [fields |-> {"percent_complete"}, percent_complete |-> <<50>>]
    /\ lastRun.text = "updated"
    /\ lastRun.completion = <<50>>

\* ----------------------------------------------------------- search claims

\* The last run was one of the two searches.
SearchRan == lastRun.op \in {"search_projects", "search_tasks"}

\* Whether the name has the query in it, letter case apart: some stretch
\* of the name is the query up to the case of each letter.
Matches(name, query) ==
    \E i \in 0..(Len(name) - Len(query)) :
        \A j \in 1..Len(query) :
            LowerLetter(name[i + j]) = LowerLetter(query[j])

\* C16 as stated: a search returns exactly the items of the whole
\* collection, whatever their status, whose name contains the query up to
\* letter case, in the collection's order.
C16_SearchFindsEveryMatch ==
    SearchRan =>
        lastRun.found =
            SelectSeq(lastRun.items, LAMBDA x : Matches(x.name, lastRun.query))

\* -------------------------------------------------------- listing claims

\* C18 as stated: a listing tool with limit = n, n >= 0, lists the first n
\* items of the result and no more; with the limit omitted it lists every
\* item.
C18_LimitCapsListing ==
    lastRun.op = "listing" =>
        LET n == Len(lastRun.items) IN
        /\ lastRun.limit = <<>> => lastRun.out.listed = lastRun.items
        /\ (lastRun.limit # <<>> /\ lastRun.limit[1] >= 0) =>
              /\ Len(lastRun.out.listed) <= lastRun.limit[1]
              /\ lastRun.out.listed =
                    SubSeq(lastRun.items, 1,
                           IF lastRun.limit[1] < n THEN lastRun.limit[1] ELSE n)

\* C20 as stated: the text of every tool that lists or reports an entity
\* shows the entity's identifier, the time-log tools' too.
C20_ResultsShowIdentifier ==
    lastRun.op = "report" => "id" \in lastRun.shown

\* ------------------------------------------------------ formatting claims

C21_EmptyBodyAndEnvelope ==
    lastRun.op = "get_all_projects" =>
        /\ lastRun.content.empty => lastRun.response = EmptyObject
        /\ ~lastRun.content.empty => lastRun.response = lastRun.content.object
        /\ "projects" \in DOMAIN lastRun.response =>
              lastRun.out = lastRun.response["projects"]
        /\ "projects" \notin DOMAIN lastRun.response => lastRun.out = <<>>

\* C21's case: a response whose object has tasks and no projects.
C21_Witness ==
    /\ lastRun.op = "get_all_projects"
    /\ ~lastRun.content.empty
    /\ DOMAIN lastRun.response = {"tasks"}
    /\ lastRun.response["tasks"] # <<>>
    /\ lastRun.out = <<>>

\* ----------------------------------------------------------- reset claims

\* A step of reset_conversation: the agent is idle before and after it and
\* no chat call began.
ResetStep == pc = "idle" /\ pc' = "idle" /\ chats' = chats

\* C22: reset_conversation empties the buffer, whatever it held, and a
\* second reset changes nothing; after it the history is empty, and a chat
\* call that begins on the emptied buffer is given no earlier turn.
C22_ResetEmptiesMemory ==
    [][/\ ResetStep =>
            /\ messages' = <<>>
            /\ Clear(messages') = messages'
            /\ GetConversationHistory(messages') = <<>>
            /\ Window(messages', K) = <<>>
       /\ (pc = "idle" /\ messages = <<>> /\ pc' = "loop") =>
            chat_history' = <<>>]_vars

\* C22's case: a chat call saved its exchange and returned, and the buffer
\* is empty again.
C22_Witness ==
    /\ pc = "idle"
    /\ chats > 1
    /\ returned.kind = "string"
    /\ returned.caught = "none"
    /\ messages = <<>>

\* --------------------------------------------------------- startup claims

\* C23: a start with a required value absent (the OpenAI key, the Zoho
\* client id, client secret, refresh token or portal id) fails when the
\* settings are loaded, and no agent or client is made; an agent that was
\* made, and its client, hold a value for each of the five.
C23_StartupFailsFast ==
    lastRun.op = "startup" =>
        LET out == lastRun.out IN
        /\ (\E f \in RequiredFields : lastRun.env[f] = "absent") =>
              (out.raised = "ValidationError" /\ out.agent = <<>>)
        /\ out.agent # <<>> =>
              LET agent == out.agent[1] IN
              /\ out.raised = "none"
              /\ agent.api_key # "absent"
              /\ agent.zoho_client.client_id # "absent"
              /\ agent.zoho_client.client_secret # "absent"
              /\ agent.zoho_client.refresh_token # "absent"
              /\ agent.zoho_client.portal_id # "absent"

\* C23's case: a start where only the portal id is absent.
C23_Witness ==
    /\ lastRun.op = "startup"
    /\ \A f \in RequiredFields :
          lastRun.env[f] = "absent" <=> f = "zoho_portal_id"
    /\ lastRun.out.raised = "ValidationError"
    /\ lastRun.out.agent = <<>>

\* ------------------------------------------------------ delegation claims

\* C24: a tool invoked with valid arguments calls one operation of the
\* client, and the client defines that operation.
C24_EveryToolDelegates ==
    (lastCall.tool \in ToolNames /\ lastCall.args = "valid") =>
        /\ ClientMethod(lastCall.tool) \in ClientMethods
        /\ lastCall.called
        /\ lastCall.raised # "AttributeError"

\* ----------------------------------------------------- concurrency claims

\* Thread t has made, in its call in progress, a refresh exchange that
\* issued a token.
Exchanged(t) == thread[t].tok # 0

\* C25: the threads' accesses to the cached credential are serialized: no
\* two threads make a refresh exchange each for the same absent or expired
\* credential.
C25_OneRefreshPerExpiry ==
    \A t, u \in Threads :
        (t # u /\ Exchanged(t) /\ Exchanged(u)) =>
            thread[t].saw # thread[u].saw

\* -------------------------------------------------------- identity claims

\* get_all_time_logs has just run on valid arguments.
TimeLogsRan ==
    lastCall.tool = "get_all_time_logs" /\ lastCall.args = "valid"

\* C26: the identity a tool reads during a chat call is the one the request
\* that began the call supplied, none if it supplied none.
C26_IdentityIsTheRequests ==
    TimeLogsRan => lastCall.read = request.caller

\* C27: get_all_time_logs makes its query with the users_list filter set to
\* the caller's identity, or to 'all' when there is none, and does not fail
\* for it.
C27_QueryScopedToCaller ==
    TimeLogsRan =>
        /\ lastCall.users_list =
              (IF lastCall.read # <<>> THEN lastCall.read[1] ELSE "all")
        /\ lastCall.called
        /\ lastCall.raised = "none"

\* ------------------------------------------------------ credential claims

\* C28: the cached token and the recorded expiry come from the same refresh
\* exchange: none of the two is set, or the expiry is the one recorded with
\* the cached token.
C28_TokenAndExpiryFromOneExchange ==
    /\ access_token = <<>> <=> token_expires_at = <<>>
    /\ expiry_from = access_token

\* The operation that has just ended is a _make_request whose request
\* failed with ZohoAPIError.
ApiCallFailedNow == lastOp.op = "make_request" /\ lastOp.exc = "ZohoAPIError"

\* C29: a _make_request that fails with ZohoAPIError made its one request
\* and leaves the credential as the token fetch before the request left
\* it: unchanged if the cached token was valid, and else the refreshed one;
\* nothing is cleared and nothing refreshed after the failure, and a
\* request that follows while the recorded expiry has not passed is sent
\* with the same token without an exchange.
C29_ApiFailureLeavesCredential ==
    [][/\ ApiCallFailedNow' =>
            /\ lastOp'.attempts = 1
            /\ access_token' = lastOp'.token
            /\ access_token' # <<>>
            /\ token_expires_at' # <<>>
            /\ TokenValid(Cred, now) =>
                  /\ lastOp'.refreshes = 0
                  /\ access_token' = access_token
                  /\ token_expires_at' = token_expires_at
                  /\ issued' = issued
            /\ ~TokenValid(Cred, now) =>
                  /\ lastOp'.refreshes = 1
                  /\ issued' = issued + 1
                  /\ expiry_from' = access_token'
       /\ (ApiCallFailedNow /\ TokenValid(Cred, now)
             /\ lastOp'.op = "make_request") =>
            /\ lastOp'.refreshes = 0
            /\ lastOp'.sent
            /\ lastOp'.token = lastOp.token]_vars

\* C29's case: the API refused a request sent with the cached, valid token
\* (as with a 401), and a second request went out with the same token.
C29_Witness ==
    /\ ApiCallFailedNow
    /\ lastOp.error.cause = "http_error"
    /\ lastOp.valid_before
    /\ lastOp.refreshes = 0
    /\ lastOp.prev_token = lastOp.token
    /\ access_token = lastOp.token
    /\ TokenValid(Cred, now)

\* ---------------------------------------------------------- marker claims

\* C30: the text of a listing tool ends with "(Showing first N results)"
\* exactly when a limit N was given and the result held more than N items.
C30_MarkerIffTruncated ==
    lastRun.op = "listing" =>
        (lastRun.out.marker <=>
            (lastRun.limit # <<>> /\ Len(lastRun.items) > lastRun.limit[1]))

====
